---- MODULE Spec2Model ----
(***************************************************************************)
(* A model of study/demo_01_pdf_parsing.py: main() as a state machine over *)
(* the filesystem it touches, the two collaborators it calls (Pipeline and *)
(* PDFParser, both opaque: each call either returns or raises an instance  *)
(* of Exception, and parse_and_export may change the output directory) and *)
(* the text it prints. Strings range over printable ASCII and the control  *)
(* characters \n, \r, \t and \f. The filesystem calls behave as those of   *)
(* CPython 3.11 on POSIX: Path.exists() answers False for a path that is   *)
(* missing or runs through a regular file and raises every other OSError,  *)
(* PermissionError among them.                                             *)
(***************************************************************************)
EXTENDS Integers, Sequences, FiniteSets, TLC

VARIABLES
    pc,            \* where main() is: the next step, "done" (returned) or "raised"
    outDir,        \* study/parsed_output: "absent", "dir", "file", "blocked"
                   \* (an ancestor is a regular file) or "denied" (its
                   \* parent cannot be written)
    outAccess,     \* what the process may do with that directory: "full",
                   \* "nowrite" (it can list and reach the entries, not add
                   \* or remove one), "noread" (it can reach the entries,
                   \* not list them) or "nosearch" (it cannot reach them)
    studyDir,      \* study, the parent of that directory: "absent", "dir" or
                   \* "file"
    umask,         \* what the file mode creation mask leaves the process on
                   \* a directory it creates, as outAccess
    outFile,       \* what is at output_json_path
    outOthers,     \* the names of the other entries of the output directory
    parentDir,     \* data/test_set/pdf_reports: "absent", "dir" or "file"
    parentAccess,  \* what the process may do with that directory, as outAccess
    inputPdf,      \* whether sample_pdf_path exists
    parentEntries, \* the names of the entries of the input's directory
    calls,         \* every call main() has made outside itself, in order
    out,           \* the argument of every print() so far, in order
    preexisting,   \* what was at output_json_path when main() started
    parseEffect    \* what parse_and_export did to the output directory ("" before it)

vars == <<pc, outDir, outAccess, studyDir, umask, outFile, outOthers, parentDir,
          parentAccess, inputPdf, parentEntries, calls, out, preexisting,
          parseEffect>>

fsVars == <<outDir, outAccess, studyDir, umask, outFile, outOthers, parentDir,
            parentAccess, inputPdf, parentEntries>>

(* ----------------------------- bounds ---------------------------------- *)

\* The longest listing of the input's parent directory that is explored.
MaxParentEntries == 6

\* How far past (and short of) the snippet limit the padded documents reach.
MaxOver == 2

(* ------------------------- program constants --------------------------- *)

SnippetLimit == 500

ListingLimit == 5

JsonIndent == 2

sample_pdf_filename == "194000c9109c6fa628f1fed33b44ae4c2b8365f4.pdf"

pdf_reports_dir == "data/test_set/pdf_reports"

sample_pdf_path == pdf_reports_dir \o "/" \o sample_pdf_filename

output_dir == "study/parsed_output"

output_json_path == output_dir \o "/" \o sample_pdf_filename \o ".json"

\* The working directory the relative paths are resolved against.
Cwd == "/repo"

(* --------------------------- text helpers ------------------------------ *)

RECURSIVE Rep(_, _)
Rep(s, n) ==
    IF n <= 0 THEN ""
    ELSE IF n = 1 THEN s
    ELSE Rep(s, n \div 2) \o Rep(s, n - (n \div 2))

RECURSIVE Join(_, _)
Join(parts, sep) ==
    IF Len(parts) = 0 THEN ""
    ELSE IF Len(parts) = 1 THEN parts[1]
    ELSE parts[1] \o sep \o Join(Tail(parts), sep)

\* Python's s[:n] on a string.
Prefix(s, n) == IF Len(s) <= n THEN s ELSE SubSeq(s, 1, n)

\* Python's l[:n] on a list.
Take(l, n) == IF Len(l) <= n THEN l ELSE SubSeq(l, 1, n)

\* Python's `sub in s` on two strings.
Contains(s, sub) ==
    \E i \in 1..(Len(s) - Len(sub) + 1) : SubSeq(s, i, i + Len(sub) - 1) = sub

\* Path.resolve() of a relative path with no symbolic links on the way.
Resolve(p) == Cwd \o "/" \o p

\* repr() of one character of a str that is shown between `quote`s.
PyReprChar(c, quote) ==
    CASE c = "\\" -> "\\\\"
      [] c = quote -> "\\" \o quote
      [] c = "\n" -> "\\n"
      [] c = "\r" -> "\\r"
      [] c = "\t" -> "\\t"
      [] c = "\f" -> "\\x0c"
      [] OTHER -> c

RECURSIVE PyReprRange(_, _, _, _)
PyReprRange(s, lo, hi, quote) ==
    IF lo > hi THEN ""
    ELSE IF lo = hi THEN PyReprChar(SubSeq(s, lo, lo), quote)
    ELSE LET mid == (lo + hi) \div 2
         IN  PyReprRange(s, lo, mid, quote) \o PyReprRange(s, mid + 1, hi, quote)

\* repr() of a str: double quotes when it holds an apostrophe and no double
\* quote, single quotes otherwise; the quote, the backslash and the
\* control characters escaped.
PyReprStr(s) ==
    LET quote == IF Contains(s, "'") /\ ~Contains(s, "\"") THEN "\"" ELSE "'"
    IN  quote \o PyReprRange(s, 1, Len(s), quote) \o quote

\* repr() of the list of PosixPath made of the names of directory d, in the
\* order given: each is PosixPath(<repr of its string>).
ReprPathList(d, names) ==
    "[" \o Join([i \in 1..Len(names) |->
                    "PosixPath(" \o PyReprStr(d \o "/" \o names[i]) \o ")"], ", ")
        \o "]"

\* The orders in which iterdir() may yield the entries of a directory: the
\* filesystem's, so any.
RECURSIVE ListingOrders(_)
ListingOrders(names) ==
    IF names = {} THEN {<<>>}
    ELSE UNION {{<<x>> \o rest : rest \in ListingOrders(names \ {x})} : x \in names}

(* ---------------------------- JSON values ------------------------------ *)
(* A value carries its type in field t: "str" (s), "int" (n), "bool" (b),  *)
(* "null", "arr" (a: its items) and "obj" (m: its <<key, value>> members   *)
(* in insertion order, the keys distinct).                                 *)

JStr(s) == [t |-> "str", s |-> s]
JInt(n) == [t |-> "int", n |-> n]
JBool(b) == [t |-> "bool", b |-> b]
JNull == [t |-> "null"]
JArr(a) == [t |-> "arr", a |-> a]
JObj(m) == [t |-> "obj", m |-> m]

HasKey(v, k) == \E i \in 1..Len(v.m) : v.m[i][1] = k

Lookup(v, k) == v.m[CHOOSE i \in 1..Len(v.m) : v.m[i][1] = k][2]

\* json.dumps of one character of a string.
JsonEscapeChar(c) ==
    CASE c = "\"" -> "\\\""
      [] c = "\\" -> "\\\\"
      [] c = "\n" -> "\\n"
      [] c = "\r" -> "\\r"
      [] c = "\t" -> "\\t"
      [] c = "\f" -> "\\f"
      [] OTHER -> c

RECURSIVE JsonEscapeRange(_, _, _)
JsonEscapeRange(s, lo, hi) ==
    IF lo > hi THEN ""
    ELSE IF lo = hi THEN JsonEscapeChar(SubSeq(s, lo, lo))
    ELSE LET mid == (lo + hi) \div 2
         IN  JsonEscapeRange(s, lo, mid) \o JsonEscapeRange(s, mid + 1, hi)

\* json.dumps of a string or of a key: quoted, with the double quote, the
\* backslash and the control characters escaped.
JsonString(s) == "\"" \o JsonEscapeRange(s, 1, Len(s)) \o "\""

\* json.dumps(v, indent=2) at nesting depth `level`.
RECURSIVE Dumps(_, _)
Dumps(v, level) ==
    LET pad  == Rep(" ", JsonIndent * (level + 1))
        back == Rep(" ", JsonIndent * level)
    IN  CASE v.t = "str"  -> JsonString(v.s)
          [] v.t = "int"  -> ToString(v.n)
          [] v.t = "bool" -> IF v.b THEN "true" ELSE "false"
          [] v.t = "null" -> "null"
          [] v.t = "arr"  ->
               IF Len(v.a) = 0 THEN "[]"
               ELSE "[\n"
                    \o Join([i \in 1..Len(v.a) |->
                               pad \o Dumps(v.a[i], level + 1)], ",\n")
                    \o "\n" \o back \o "]"
          [] v.t = "obj"  ->
               IF Len(v.m) = 0 THEN "{}"
               ELSE "{\n"
                    \o Join([i \in 1..Len(v.m) |->
                               pad \o JsonString(v.m[i][1]) \o ": "
                                   \o Dumps(v.m[i][2], level + 1)], ",\n")
                    \o "\n" \o back \o "}"

\* repr() of a loaded value, as str() of a container shows its items.
RECURSIVE PyRepr(_)
PyRepr(v) ==
    CASE v.t = "str"  -> PyReprStr(v.s)
      [] v.t = "int"  -> ToString(v.n)
      [] v.t = "bool" -> IF v.b THEN "True" ELSE "False"
      [] v.t = "null" -> "None"
      [] v.t = "arr"  ->
           "[" \o Join([i \in 1..Len(v.a) |-> PyRepr(v.a[i])], ", ") \o "]"
      [] v.t = "obj"  ->
           "{" \o Join([i \in 1..Len(v.m) |->
                          PyReprStr(v.m[i][1]) \o ": " \o PyRepr(v.m[i][2])], ", ")
               \o "}"

\* str() of a loaded value, as an f-string formats it.
PyStr(v) == IF v.t = "str" THEN v.s ELSE PyRepr(v)

(* ------------------------ the output file's content -------------------- *)

\* The documents a JSON file at output_json_path may hold.
PaddedDoc(k) == JObj(<< <<"text", JStr(Rep("a", k))>> >>)

PadOverhead == Len(Dumps(PaddedDoc(0), 0))

FixedDocs ==
    << JObj(<< <<"metainfo", JObj(<< <<"sha1_name", JStr("194000c9")>>,
                                      <<"pages_amount", JInt(3)>>,
                                      <<"company_name", JStr("Acme Corp")>> >>)>>,
               <<"content", JArr(<<>>)>>,
               <<"tables", JArr(<<>>)>> >>),
       JObj(<< <<"metainfo", JObj(<<>>)>> >>),
       JObj(<< <<"metainfo", JObj(<< <<"tags", JArr(<<JStr("a"), JInt(1)>>)>>,
                                      <<"ocr", JBool(TRUE)>>,
                                      <<"lang", JNull>> >>)>> >>),
       JObj(<< <<"content", JArr(<<>>)>> >>),
       JObj(<<>>),
       JObj(<< <<"metainfo", JStr("n/a")>> >>),
       JObj(<< <<"metainfo", JNull>> >>),
       JArr(<<>>),
       JArr(<<JStr("metainfo")>>),
       JStr("metainfo"),
       JStr("text"),
       JInt(7),
       PaddedDoc(2 * SnippetLimit),
       JObj(<< <<"t", JStr("say \"hi\"")>> >>),
       JObj(<< <<"a\"b", JInt(1)>> >>),
       JObj(<< <<"t", JStr("line1\nline2")>> >>),
       JObj(<< <<"metainfo", JObj(<< <<"names", JArr(<<JStr("it's")>>)>>,
                                      <<"note", JArr(<<JStr("a\nb")>>)>>,
                                      <<"both", JArr(<<JStr("it's \"x\"")>>)>>,
                                      <<"path", JObj(<< <<"c:\\d", JStr("x\ty")>> >>)>>,
                                      <<"title", JStr("it's \"x\"")>> >>)>> >>),
       JObj(<< <<"text", JStr("\"" \o Rep("a", SnippetLimit - PadOverhead - 1))>> >>) >>

Documents ==
    FixedDocs \o [i \in 1..(2 * MaxOver + 1) |->
                    PaddedDoc(SnippetLimit - PadOverhead - MaxOver - 1 + i)]

\* What can be at output_json_path: nothing ("absent"); a directory
\* ("unreadable": open() raises IsADirectoryError); a file the process may
\* not read ("forbidden": open() raises PermissionError); a text file that is not
\* JSON ("malformed": json.load raises JSONDecodeError); a file that is not
\* UTF-8 ("undecodable": json.load raises UnicodeDecodeError); a JSON file
\* with a top-level 'metainfo' object and a member nested deeper than the
\* interpreter's recursion limit ("deep": json.load raises RecursionError);
\* a JSON file holding Documents[doc] ("json").
NoFile == [kind |-> "absent", doc |-> 0]

\* The 'metainfo' member of the "deep" file.
DeepMetainfo == JObj(<< <<"sha1_name", JStr("194000c9")>> >>)

FileContents ==
    {[kind |-> k, doc |-> 0] :
        k \in {"unreadable", "forbidden", "malformed", "undecodable", "deep"}}
    \cup {[kind |-> "json", doc |-> i] : i \in 1..Len(Documents)}

\* The messages an exception raised by a collaborator may carry.
ErrorTexts == {"connection timed out", "out of memory"}

\* What parse_and_export may do to the entries of the output directory
\* before it returns or raises: nothing, write output_json_path (a new file
\* or one rewritten in place), write another file, remove the directory
\* with what it holds, put a regular file in its place.
ParseEffects == {"none", "write", "write_other", "remove_dir", "replace_dir"}

OtherName == "194000c9109c6fa628f1fed33b44ae4c2b8365f4.json"

ParentListing(n) == {"report" \o ToString(i) \o ".pdf" : i \in 1..n}

\* What the permission bits of a directory leave the process: everything;
\* no change of its entries (read and search without write, as mode 0555);
\* no listing (search without read, as mode 0311 for another user); no
\* access to the entries (no search, as mode 000 or 0444).
AccessModes == {"full", "nowrite", "noread", "nosearch"}

Call(op, args, raised) == [op |-> op, args |-> args, raised |-> raised]

(* ------------------------------- Init ----------------------------------- *)

Init ==
    /\ pc = "download"
    /\ calls = <<>>
    /\ out = <<>>
    /\ parseEffect = ""
    /\ outDir \in {"absent", "dir", "file", "blocked", "denied"}
    /\ IF outDir = "dir"
       THEN /\ outAccess \in AccessModes
            /\ outFile \in {NoFile} \cup FileContents
            /\ outOthers \in {{}, {"notes.txt"}, {"it's.txt"}}
       ELSE /\ outAccess = "full"
            /\ outFile = NoFile
            /\ outOthers = {}
    /\ studyDir \in CASE outDir = "absent"  -> {"absent", "dir"}
                      [] outDir = "blocked" -> {"file"}
                      [] OTHER -> {"dir"}
    \* the mask matters to a run that creates the directory, and to no other
    /\ umask \in IF outDir = "absent" THEN AccessModes ELSE {"full"}
    /\ preexisting = outFile
    /\ parentDir \in {"absent", "dir", "file"}
    \* main() writes nothing there: "nowrite" is "full" to it
    /\ parentAccess \in IF parentDir = "dir" THEN AccessModes \ {"nowrite"}
                                            ELSE {"full"}
    /\ IF parentDir = "dir"
       THEN \/ /\ inputPdf = TRUE
               /\ parentEntries = {sample_pdf_filename}
            \/ /\ inputPdf = FALSE
               /\ \E n \in 0..MaxParentEntries : parentEntries = ParentListing(n)
               \* the longer listings are explored with nothing at
               \* output_json_path, which a run without the input never reads
               /\ Cardinality(parentEntries) > 2 => outFile = NoFile /\ outOthers = {}
       ELSE /\ inputPdf = FALSE
            /\ parentEntries = {}

(* ------------------------- the flow of main() --------------------------- *)

\* Mutant: the input is checked before the output directory is created.
FollowingInputFirst(step) ==
    CASE step = "download"     -> "check_input"
      [] step = "check_input"  -> "mkdir"
      [] step = "mkdir"        -> "construct"
      [] step = "construct"    -> "parse"
      [] step = "parse"        -> "check_output"
      [] step = "check_output" -> "load"
      [] step = "load"         -> "done"

\* The step that follows a step that completed: main() is one straight line.
Following(step) ==
    CASE step = "download"     -> "mkdir"
      [] step = "mkdir"        -> "check_input"
      [] step = "check_input"  -> "construct"
      [] step = "construct"    -> "parse"
      [] step = "parse"        -> "check_output"
      [] step = "check_output" -> "load"
      [] step = "load"         -> "done"

\* Mutant: the except clause of the download has no return.
DownloadFailureFallsThrough == "mkdir"

\* Where main() goes when download_docling_models() raises: the except
\* clause returns.
DownloadFailureNext == "done"

\* Where main() goes when sample_pdf_path does not exist: it returns.
InputMissingNext == "done"

\* Mutant: the except clause of the parse call has no return.
ParseFailureFallsThrough == "check_output"

\* Mutant: the parse call is tried again after a failure.
ParseFailureRetries == "parse"

\* Where main() goes when parse_and_export() raises: the except clause
\* returns.
ParseFailureNext == "done"

\* output_json_path.exists()
OutputExists == outFile.kind # "absent"

(* --------------------------- 1. the models ------------------------------ *)

DownloadModels ==
    /\ pc = "download"
    /\ \E raised \in {""} \cup ErrorTexts :
          /\ calls' = Append(calls,
                  Call("Pipeline.download_docling_models", <<>>,
                       IF raised = "" THEN "" ELSE "Exception"))
          /\ IF raised = ""
             THEN /\ out' = out \o
                       << "Starting PDF parsing demo...",
                          "Checking and downloading Docling models if necessary...",
                          "Docling models are ready." >>
                  /\ pc' = Following("download")
             ELSE /\ out' = out \o
                       << "Starting PDF parsing demo...",
                          "Checking and downloading Docling models if necessary...",
                          "Error downloading or verifying Docling models: " \o raised,
                          "Please check your internet connection and model download path configuration." >>
                  /\ pc' = DownloadFailureNext
    /\ UNCHANGED <<fsVars, preexisting, parseEffect>>

(* ---------------------- 2. the output directory ------------------------- *)

\* The exception of output_dir.mkdir(parents=True, exist_ok=True), "" when
\* it returns: a directory is left as it is, whatever its permission bits;
\* a file at the path, a file among the ancestors and a parent that cannot
\* be written or searched make it raise. A missing directory is created
\* with mode 0777 & ~umask, and so is study before it when it is missing
\* too: the second mkdir then fails in a study the mask left without write
\* or search permission.
MkdirError ==
    CASE outDir = "file"    -> "FileExistsError"
      [] outDir = "blocked" -> "NotADirectoryError"
      [] outDir = "denied"  -> "PermissionError"
      [] outDir = "absent" /\ studyDir = "absent"
            /\ umask \in {"nowrite", "nosearch"} -> "PermissionError"
      [] OTHER -> ""

\* The mkdir call stands outside every try block: what it raises leaves
\* main() before anything more is printed.
MakeOutputDir ==
    /\ pc = "mkdir"
    /\ IF MkdirError # ""
       THEN /\ calls' = Append(calls,
                    Call("Path.mkdir", <<output_dir>>, MkdirError))
            /\ pc' = "raised"
            \* a missing study was created before the failure
            /\ studyDir' = IF studyDir = "absent" THEN "dir" ELSE studyDir
            /\ UNCHANGED <<outDir, outAccess, out>>
       ELSE /\ calls' = Append(calls, Call("Path.mkdir", <<output_dir>>, ""))
            /\ outDir' = "dir"
            /\ outAccess' = IF outDir = "absent" THEN umask ELSE outAccess
            /\ studyDir' = "dir"
            /\ out' = out \o
                 << "Input PDF: " \o sample_pdf_path,
                    "Output JSON will be saved to: " \o output_json_path >>
            /\ pc' = Following("mkdir")
    /\ UNCHANGED <<umask, outFile, outOthers, parentDir, parentAccess,
                   inputPdf, parentEntries, preexisting, parseEffect>>

(* --------------------------- 3. the input ------------------------------- *)

\* What main() prints when the input is missing, before the listing.
InputMissingLines ==
    << "Error: Sample PDF file not found at " \o sample_pdf_path,
       "Please ensure the data is available in the 'data/test_set/pdf_reports/' directory.",
       "Absolute path checked: " \o Resolve(sample_pdf_path) >>

\* The exception of sample_pdf_path.exists(), "" when it answers: the stat
\* of a path whose directory cannot be searched fails with EACCES, which
\* exists() raises again, whether the file is there or not.
InputExistsError ==
    IF parentDir = "dir" /\ parentAccess = "nosearch" THEN "PermissionError" ELSE ""

\* The exception of list(sample_pdf_path.parent.iterdir()), "" when it
\* returns the entries.
ParentListError ==
    CASE parentDir = "file" -> "NotADirectoryError"
      [] parentDir = "dir" /\ parentAccess \in {"noread", "nosearch"} ->
           "PermissionError"
      [] OTHER -> ""

\* The existence check and the listing stand outside every try block: what
\* they raise leaves main().
CheckInput ==
    /\ pc = "check_input"
    /\ IF InputExistsError # ""
       THEN /\ calls' = Append(calls,
                    Call("Path.exists", <<sample_pdf_path>>, InputExistsError))
            /\ out' = out
            /\ pc' = "raised"
       ELSE IF inputPdf
       THEN /\ calls' = Append(calls, Call("Path.exists", <<sample_pdf_path>>, ""))
            /\ out' = out
            /\ pc' = Following("check_input")
       ELSE IF parentDir = "absent"
       THEN /\ calls' = calls \o
                 << Call("Path.exists", <<sample_pdf_path>>, ""),
                    Call("Path.resolve", <<sample_pdf_path>>, ""),
                    Call("Path.exists", <<pdf_reports_dir>>, "") >>
            /\ out' = out \o InputMissingLines \o
                 << "Directory '" \o pdf_reports_dir \o "' does not exist." >>
            /\ pc' = InputMissingNext
       ELSE IF ParentListError = ""
       THEN /\ calls' = calls \o
                 << Call("Path.exists", <<sample_pdf_path>>, ""),
                    Call("Path.resolve", <<sample_pdf_path>>, ""),
                    Call("Path.exists", <<pdf_reports_dir>>, ""),
                    Call("Path.iterdir", <<pdf_reports_dir>>, "") >>
            /\ \E order \in ListingOrders(parentEntries) :
                 out' = out \o InputMissingLines \o
                     << "Files in '" \o pdf_reports_dir \o "': " \o
                        ReprPathList(pdf_reports_dir,
                                     Take(order, ListingLimit)) >>
            /\ pc' = InputMissingNext
       ELSE \* the parent is not a directory, or not one the process may list
            /\ calls' = calls \o
                 << Call("Path.exists", <<sample_pdf_path>>, ""),
                    Call("Path.resolve", <<sample_pdf_path>>, ""),
                    Call("Path.exists", <<pdf_reports_dir>>, ""),
                    Call("Path.iterdir", <<pdf_reports_dir>>, ParentListError) >>
            /\ out' = out \o InputMissingLines
            /\ pc' = "raised"
    /\ UNCHANGED <<fsVars, preexisting, parseEffect>>

(* --------------------------- 4. the parser ------------------------------ *)

\* PDFParser(output_dir=str(output_dir)): no guard around it, so an
\* exception of the constructor leaves main().
ConstructParser ==
    /\ pc = "construct"
    /\ out' = Append(out,
          "Initializing PDFParser with output directory: " \o output_dir \o "...")
    /\ \E raised \in {""} \cup ErrorTexts :
          /\ calls' = Append(calls,
                  Call("PDFParser", <<output_dir>>,
                       IF raised = "" THEN "" ELSE "Exception"))
          /\ pc' = IF raised = "" THEN Following("construct") ELSE "raised"
    /\ UNCHANGED <<fsVars, preexisting, parseEffect>>

\* parse_and_export(input_doc_paths=[sample_pdf_path]) with whatever it does
\* to the output directory, inside try/except Exception. The parser is
\* opaque: whatever the permission bits of the directory were, it may have
\* changed them for its work, and it leaves the directory with any bits.
ParseAndExport ==
    /\ pc = "parse"
    /\ \E effect \in ParseEffects :
          /\ parseEffect' = effect
          /\ CASE effect = "none" ->
                    /\ outAccess' \in AccessModes
                    /\ UNCHANGED <<outDir, outFile, outOthers>>
               [] effect = "write" ->
                    /\ outFile' \in FileContents
                    /\ outAccess' \in AccessModes
                    /\ UNCHANGED <<outDir, outOthers>>
               [] effect = "write_other" ->
                    /\ outOthers' = outOthers \cup {OtherName}
                    /\ outAccess' \in AccessModes
                    /\ UNCHANGED <<outDir, outFile>>
               [] effect = "remove_dir" ->
                    /\ outDir' = "absent"
                    /\ outAccess' = "full"
                    /\ outFile' = NoFile
                    /\ outOthers' = {}
               [] effect = "replace_dir" ->
                    /\ outDir' = "file"
                    /\ outAccess' = "full"
                    /\ outFile' = NoFile
                    /\ outOthers' = {}
    /\ \E raised \in {""} \cup ErrorTexts :
          /\ calls' = Append(calls,
                  Call("PDFParser.parse_and_export", <<sample_pdf_path>>,
                       IF raised = "" THEN "" ELSE "Exception"))
          /\ IF raised = ""
             THEN /\ out' = out \o
                       << "Parsing PDF: " \o sample_pdf_path \o "...",
                          "PDF parsing and export process initiated." >>
                  /\ pc' = Following("parse")
             ELSE /\ out' = out \o
                       << "Parsing PDF: " \o sample_pdf_path \o "...",
                          "Error during PDF parsing or export: " \o raised,
                          "This could be due to issues with the PDF file, model incompatibilities, or resource limits." >>
                  /\ pc' = ParseFailureNext
    /\ UNCHANGED <<studyDir, umask, parentDir, parentAccess, inputPdf,
                   parentEntries, preexisting>>

(* --------------------------- 5. the output ------------------------------ *)

\* type(v).__name__ of a loaded value.
PyTypeName(v) ==
    CASE v.t = "str"  -> "str"
      [] v.t = "int"  -> "int"
      [] v.t = "bool" -> "bool"
      [] v.t = "null" -> "NoneType"
      [] v.t = "arr"  -> "list"
      [] v.t = "obj"  -> "dict"

\* 'metainfo' in parsed_data, for the values that support `in`: a key of a
\* dict, an item of a list, a substring of a str.
HasMetainfo(doc) ==
    CASE doc.t = "obj" -> HasKey(doc, "metainfo")
      [] doc.t = "arr" ->
           \E i \in 1..Len(doc.a) : doc.a[i].t = "str" /\ doc.a[i].s = "metainfo"
      [] doc.t = "str" -> Contains(doc.s, "metainfo")
      [] OTHER -> FALSE

\* Mutant: the loop stops one item short.
MetainfoLinesShort(meta) ==
    [i \in 1..(Len(meta.m) - 1) |->
        "  " \o meta.m[i][1] \o ": " \o PyStr(meta.m[i][2])]

\* One print per item of parsed_data['metainfo'].items(), in the dict's order.
MetainfoLines(meta) ==
    [i \in 1..Len(meta.m) |-> "  " \o meta.m[i][1] \o ": " \o PyStr(meta.m[i][2])]

\* Mutant: the slice is one character too long.
SnippetOfOneMore(doc) == Prefix(Dumps(doc, 0), SnippetLimit + 1) \o "..."

\* json.dumps(parsed_data, indent=2)[:500] + "..."
SnippetOf(doc) == Prefix(Dumps(doc, 0), SnippetLimit) \o "..."

\* What the summary code prints for a loaded value before it ends or raises,
\* and the message of the exception it raises ("" when it ends).
SummaryOutcome(doc) ==
    IF doc.t \in {"int", "bool", "null"}
    THEN [lines |-> <<>>,
          error |-> "argument of type '" \o PyTypeName(doc) \o "' is not iterable"]
    ELSE IF ~HasMetainfo(doc)
    THEN [lines |-> << "Printing the first 500 characters of the JSON output:",
                       SnippetOf(doc) >>,
          error |-> ""]
    ELSE IF doc.t = "arr"
    THEN [lines |-> <<"Metainfo:">>,
          error |-> "list indices must be integers or slices, not str"]
    ELSE IF doc.t = "str"
    THEN [lines |-> <<"Metainfo:">>,
          error |-> "string indices must be integers, not 'str'"]
    ELSE LET meta == Lookup(doc, "metainfo")
         IN  IF meta.t = "obj"
             THEN [lines |-> <<"Metainfo:">> \o MetainfoLines(meta), error |-> ""]
             ELSE [lines |-> <<"Metainfo:">>,
                   error |-> "'" \o PyTypeName(meta)
                             \o "' object has no attribute 'items'"]

GenericErrorLine(text) ==
    "An error occurred while reading or printing the JSON output: " \o text

\* What the except json.JSONDecodeError clause prints.
DecodeErrorLines ==
    << "Error: Could not decode the JSON file at " \o output_json_path \o ".",
       "The file might be corrupted or not a valid JSON." >>

\* The exception open(output_json_path, 'r', encoding='utf-8') raises for
\* file f, "" when it returns.
OpenError(f) ==
    CASE f.kind = "absent"     -> "FileNotFoundError"
      [] f.kind = "unreadable" -> "IsADirectoryError"
      [] f.kind = "forbidden"  -> "PermissionError"
      [] OTHER -> ""

\* The exception json.load raises for the opened file f, "" when it
\* returns the value.
LoadError(f) ==
    CASE f.kind = "malformed"   -> "JSONDecodeError"
      [] f.kind = "undecodable" -> "UnicodeDecodeError"
      [] f.kind = "deep"        -> "RecursionError"
      [] OTHER -> ""

\* str() of the exception that open() or json.load raises for file f (the
\* undecodable file starts with the byte FF).
ReadErrorText(f) ==
    CASE f.kind = "absent" ->
           "[Errno 2] No such file or directory: '" \o output_json_path \o "'"
      [] f.kind = "unreadable" ->
           "[Errno 21] Is a directory: '" \o output_json_path \o "'"
      [] f.kind = "forbidden" ->
           "[Errno 13] Permission denied: '" \o output_json_path \o "'"
      [] f.kind = "undecodable" ->
           "'utf-8' codec can't decode byte 0xff in position 0: invalid start byte"
      [] f.kind = "deep" ->
           "maximum recursion depth exceeded while decoding a JSON array from a unicode string"
      [] OTHER -> ""

\* Everything the try block and its except clauses print for file f: the
\* clause for json.JSONDecodeError takes that exception alone, the clause
\* for Exception every other one.
ReadLines(f) ==
    IF OpenError(f) # "" THEN << GenericErrorLine(ReadErrorText(f)) >>
    ELSE IF LoadError(f) = "JSONDecodeError" THEN DecodeErrorLines
    ELSE IF LoadError(f) # "" THEN << GenericErrorLine(ReadErrorText(f)) >>
    ELSE LET r == SummaryOutcome(Documents[f.doc])
         IN  <<"\n--- Snippet of Parsed JSON Output ---">> \o r.lines \o
             << IF r.error = "" THEN "------------------------------------"
                ELSE GenericErrorLine(r.error) >>

\* What main() prints when output_json_path does not exist, before the listing.
OutputMissingLines ==
    << "\nError: Output JSON file not found at " \o output_json_path \o ".",
       "The parsing process may have failed to produce an output.",
       "Please check logs or errors from the PDFParser execution.",
       "Expected output file: " \o Resolve(output_json_path) >>

\* The exception of output_json_path.exists(), "" when it answers.
OutputExistsError ==
    IF outDir = "dir" /\ outAccess = "nosearch" THEN "PermissionError" ELSE ""

\* The exception of list(output_dir.iterdir()), "" when it returns the entries.
OutputListError ==
    CASE outDir = "file" -> "NotADirectoryError"
      [] outDir = "dir" /\ outAccess \in {"noread", "nosearch"} ->
           "PermissionError"
      [] OTHER -> ""

\* The existence check and the listing stand outside every try block, as
\* those of the input do.
CheckOutput ==
    /\ pc = "check_output"
    /\ IF OutputExistsError # ""
       THEN /\ calls' = Append(calls,
                    Call("Path.exists", <<output_json_path>>, OutputExistsError))
            /\ out' = out
            /\ pc' = "raised"
       ELSE IF OutputExists
       THEN /\ calls' = Append(calls, Call("Path.exists", <<output_json_path>>, ""))
            /\ out' = Append(out,
                 "\nSuccessfully parsed and exported. Output JSON available at: "
                 \o output_json_path)
            /\ pc' = Following("check_output")
       ELSE IF outDir = "absent"
       THEN /\ calls' = calls \o
                 << Call("Path.exists", <<output_json_path>>, ""),
                    Call("Path.resolve", <<output_json_path>>, ""),
                    Call("Path.exists", <<output_dir>>, "") >>
            /\ out' = out \o OutputMissingLines \o
                 << "Output directory '" \o output_dir \o "' does not exist." >>
            /\ pc' = "done"
       ELSE IF OutputListError = ""
       THEN /\ calls' = calls \o
                 << Call("Path.exists", <<output_json_path>>, ""),
                    Call("Path.resolve", <<output_json_path>>, ""),
                    Call("Path.exists", <<output_dir>>, ""),
                    Call("Path.iterdir", <<output_dir>>, "") >>
            /\ \E order \in ListingOrders(outOthers) :
                 out' = out \o OutputMissingLines \o
                     << "Contents of output directory '" \o output_dir \o "': "
                        \o ReprPathList(output_dir, order) >>
            /\ pc' = "done"
       ELSE /\ calls' = calls \o
                 << Call("Path.exists", <<output_json_path>>, ""),
                    Call("Path.resolve", <<output_json_path>>, ""),
                    Call("Path.exists", <<output_dir>>, ""),
                    Call("Path.iterdir", <<output_dir>>, OutputListError) >>
            /\ out' = out \o OutputMissingLines
            /\ pc' = "raised"
    /\ UNCHANGED <<fsVars, preexisting, parseEffect>>

\* open() and json.load() of the output file and the summary, inside the try
\* whose two except clauses print and fall off the end of main().
LoadAndPrint ==
    /\ pc = "load"
    /\ calls' = calls \o
          IF OpenError(outFile) # ""
          THEN << Call("open", <<output_json_path>>, OpenError(outFile)) >>
          ELSE << Call("open", <<output_json_path>>, ""),
                  Call("json.load", <<output_json_path>>, LoadError(outFile)) >>
    /\ out' = out \o ReadLines(outFile)
    /\ pc' = Following("load")
    /\ UNCHANGED <<fsVars, preexisting, parseEffect>>

(* ------------------------------ Next ------------------------------------ *)

Next ==
    \/ DownloadModels
    \/ MakeOutputDir
    \/ CheckInput
    \/ ConstructParser
    \/ ParseAndExport
    \/ CheckOutput
    \/ LoadAndPrint

Spec == Init /\ [][Next]_vars

(* ======================= the properties checked ========================= *)

Called(op) == \E i \in 1..Len(calls) : calls[i].op = op

CalledOn(op, path) ==
    \E i \in 1..Len(calls) : calls[i].op = op /\ calls[i].args = <<path>>

Printed(line) == \E i \in 1..Len(out) : out[i] = line

HasPrefix(s, p) == Len(s) >= Len(p) /\ SubSeq(s, 1, Len(p)) = p

PrintedPrefix(p) == \E i \in 1..Len(out) : HasPrefix(out[i], p)

Raised(op) == \E i \in 1..Len(calls) : calls[i].op = op /\ calls[i].raised # ""

Returned(op) == \E i \in 1..Len(calls) : calls[i].op = op /\ calls[i].raised = ""

ReturnedOn(op, path) ==
    \E i \in 1..Len(calls) :
        calls[i].op = op /\ calls[i].args = <<path>> /\ calls[i].raised = ""

\* The existence check of the input was made; it gave an answer.
InputChecked == CalledOn("Path.exists", sample_pdf_path)

InputAnswered == ReturnedOn("Path.exists", sample_pdf_path)

\* The existence check of the output was made; it gave an answer.
OutputChecked == CalledOn("Path.exists", output_json_path)

OutputAnswered == ReturnedOn("Path.exists", output_json_path)

DownloadErrorPrefix == "Error downloading or verifying Docling models: "

ParseErrorPrefix == "Error during PDF parsing or export: "

InputNotFoundLine == "Error: Sample PDF file not found at " \o sample_pdf_path

SuccessLine ==
    "\nSuccessfully parsed and exported. Output JSON available at: "
    \o output_json_path

(* C1: once the existence check of the input has been made on a path that *)
(* does not exist, the 'Sample PDF file not found' message has been        *)
(* printed, main() has stopped, and neither the PDFParser constructor nor  *)
(* parse_and_export has been called, whatever the state of the input's     *)
(* parent directory.                                                       *)
C1_MissingInputNeverParses ==
    (InputChecked /\ ~inputPdf) =>
        /\ Printed(InputNotFoundLine)
        /\ ~Called("PDFParser")
        /\ ~Called("PDFParser.parse_and_export")
        /\ pc \in {"done", "raised"}

(* C2: when download_docling_models() has raised, the error message has    *)
(* been printed, main() has returned, and the download is the only call    *)
(* main() ever made: no mkdir, no existence check, no parser, no read.     *)
C2_DownloadFailureStops ==
    Raised("Pipeline.download_docling_models") =>
        /\ pc = "done"
        /\ Len(calls) = 1
        /\ PrintedPrefix(DownloadErrorPrefix)
        /\ out[Len(out)] =
             "Please check your internet connection and model download path configuration."

C2_Witness ==
    /\ Raised("Pipeline.download_docling_models")
    /\ pc = "done"
    /\ outDir = "absent"
    /\ Printed(DownloadErrorPrefix \o "connection timed out")

\* The external calls C3 lists: model provisioning, output-directory
\* creation, PDFParser construction, parse_and_export, reading the output.
ListedCalls ==
    {"Pipeline.download_docling_models", "Path.mkdir", "PDFParser",
     "PDFParser.parse_and_export", "open", "json.load"}

(* C3, as stated: whichever of the listed calls of main() raises (model    *)
(* provisioning, output-directory creation, PDFParser construction,        *)
(* parse_and_export, reading the output file), main() returns normally.    *)
C3_Original ==
    \A i \in 1..Len(calls) :
        (calls[i].op \in ListedCalls /\ calls[i].raised # "") => pc = "done"

(* C3, amended: of the listed calls, the guarded ones are the model        *)
(* download, parse_and_export and the reading of the output file: when one *)
(* of them raises, its message is printed and main() returns. Nothing      *)
(* guards the creation of the output directory or the PDFParser            *)
(* constructor: an exception of one of those leaves main() with that call  *)
(* as its last.                                                            *)
C3_GuardedCallsOnly ==
    \A i \in 1..Len(calls) :
        (calls[i].op \in ListedCalls /\ calls[i].raised # "") =>
            CASE calls[i].op = "Pipeline.download_docling_models" ->
                    pc = "done" /\ PrintedPrefix(DownloadErrorPrefix)
              [] calls[i].op = "PDFParser.parse_and_export" ->
                    pc = "done" /\ PrintedPrefix(ParseErrorPrefix)
              [] calls[i].op \in {"open", "json.load"} ->
                    /\ pc = "done"
                    /\ \/ PrintedPrefix("Error: Could not decode the JSON file at ")
                       \/ PrintedPrefix("An error occurred while reading or printing the JSON output: ")
              [] calls[i].op \in {"Path.mkdir", "PDFParser"} ->
                    pc = "raised" /\ i = Len(calls)

C3_Witness ==
    /\ Raised("PDFParser.parse_and_export")
    /\ pc = "done"
    /\ Printed(ParseErrorPrefix \o "out of memory")

(* C4: parse_and_export is called at most once, with a list of exactly one *)
(* path; when it raises, the error is printed and main() returns with the  *)
(* parse call as its last call: no retry, no check or read of the output.  *)
C4_SingleParseCall ==
    /\ Cardinality({i \in 1..Len(calls) :
                        calls[i].op = "PDFParser.parse_and_export"}) <= 1
    /\ \A i \in 1..Len(calls) :
          calls[i].op = "PDFParser.parse_and_export" =>
              /\ calls[i].args = <<sample_pdf_path>>
              /\ calls[i].raised # "" =>
                    /\ i = Len(calls)
                    /\ pc = "done"
                    /\ PrintedPrefix(ParseErrorPrefix)
                    /\ ~OutputChecked
                    /\ ~Called("open")

C4_Witness ==
    /\ Raised("PDFParser.parse_and_export")
    /\ pc = "done"
    /\ parseEffect = "write"
    /\ outFile.kind = "json"
    /\ ~OutputChecked

\* The document in the output file, when it is a JSON file.
LoadedDoc == Documents[outFile.doc]

LoadedOk == outFile.kind = "json" /\ Returned("json.load")

\* A top-level 'metainfo' key: the loaded value is an object with that member.
TopLevelKey(doc) == doc.t = "obj" /\ HasKey(doc, "metainfo")

\* The key/value pairs of the document's metainfo mapping.
MetainfoPairs(doc) ==
    IF TopLevelKey(doc) /\ Lookup(doc, "metainfo").t = "obj"
    THEN Lookup(doc, "metainfo").m
    ELSE <<>>

PairLine(pair) == "  " \o pair[1] \o ": " \o PyStr(pair[2])

SnippetHeader == "Printing the first 500 characters of the JSON output:"

ClosingRule == "------------------------------------"

\* The position of the first print of `line`, 0 when it was never printed.
PositionOf(line) ==
    IF Printed(line) THEN CHOOSE i \in 1..Len(out) :
                              out[i] = line /\ \A j \in 1..(i - 1) : out[j] # line
    ELSE 0

\* The file holds well-formed JSON whose top level has a 'metainfo' key.
WellFormedWithMetainfo(f) ==
    \/ f.kind = "deep"
    \/ f.kind = "json" /\ TopLevelKey(Documents[f.doc])

\* The key/value pairs of the metainfo mapping in such a file.
FileMetainfoPairs(f) ==
    IF f.kind = "deep" THEN DeepMetainfo.m ELSE MetainfoPairs(Documents[f.doc])

(* C5, as stated: after a parse call that returned, when the output file   *)
(* is found to exist and holds well-formed JSON with a top-level           *)
(* 'metainfo' key, the printed text has one line for each key/value pair   *)
(* of the metainfo mapping.                                                *)
C5_Original ==
    (pc = "done" /\ Returned("PDFParser.parse_and_export")
        /\ OutputAnswered /\ WellFormedWithMetainfo(outFile)) =>
        \A j \in 1..Len(FileMetainfoPairs(outFile)) :
            Printed(PairLine(FileMetainfoPairs(outFile)[j]))

(* C5, amended: after a parse call that returned, when json.load returned  *)
(* the content of the output file and it has a top-level 'metainfo' key,   *)
(* the text printed after 'Metainfo:' has one line for each key/value pair *)
(* of the metainfo mapping, in order, and none is left out.                *)
C5_EveryLoadedMetainfoPairPrinted ==
    (pc = "done" /\ Returned("PDFParser.parse_and_export")
        /\ LoadedOk /\ TopLevelKey(LoadedDoc)) =>
        LET pairs == MetainfoPairs(LoadedDoc)
            at    == PositionOf("Metainfo:")
        IN  /\ at > 0
            /\ Len(out) >= at + Len(pairs)
            /\ \A j \in 1..Len(pairs) : out[at + j] = PairLine(pairs[j])

C5_Witness ==
    /\ pc = "done" /\ Returned("PDFParser.parse_and_export")
    /\ LoadedOk /\ TopLevelKey(LoadedDoc)
    /\ Len(MetainfoPairs(LoadedDoc)) = 3
    /\ Printed("  sha1_name: 194000c9")
    /\ Printed("  pages_amount: 3")
    /\ Printed("  company_name: Acme Corp")

(* C6: when the output check finds the file and the file is not valid JSON *)
(* (text that is not JSON, or bytes that are not UTF-8), main() prints the *)
(* 'Could not decode the JSON file' message, prints neither the metainfo   *)
(* lines nor the snippet, and returns normally.                            *)
C6_MalformedJsonReported ==
    (pc \in {"done", "raised"} /\ Returned("PDFParser.parse_and_export")
        /\ OutputAnswered /\ outFile.kind \in {"malformed", "undecodable"}) =>
        /\ pc = "done"
        /\ Printed("Error: Could not decode the JSON file at "
                   \o output_json_path \o ".")
        /\ out[Len(out)] = "The file might be corrupted or not a valid JSON."
        /\ ~Printed("Metainfo:")
        /\ ~Printed(SnippetHeader)
        /\ ~Printed("\n--- Snippet of Parsed JSON Output ---")

(* C7: when parse_and_export has returned and the output check is made on  *)
(* a path where there is no file, main() prints 'Output JSON file not      *)
(* found', then the listing of the output directory when it exists and     *)
(* otherwise that it does not exist, never opens the output file, and      *)
(* returns normally.                                                       *)
C7_MissingOutputListed ==
    (OutputChecked /\ Returned("PDFParser.parse_and_export")
        /\ outFile.kind = "absent") =>
        /\ pc = "done"
        /\ Printed("\nError: Output JSON file not found at "
                   \o output_json_path \o ".")
        /\ ~Printed(SuccessLine)
        /\ ~Called("open")
        /\ IF outDir = "dir"
           THEN /\ CalledOn("Path.iterdir", output_dir)
                /\ \E order \in ListingOrders(outOthers) :
                     out[Len(out)] =
                         "Contents of output directory '" \o output_dir \o "': "
                         \o ReprPathList(output_dir, order)
           ELSE /\ ~CalledOn("Path.iterdir", output_dir)
                /\ out[Len(out)] =
                     "Output directory '" \o output_dir \o "' does not exist."

\* The step of main() a call belongs to ("" for the diagnostic probes).
StepOf(c) ==
    CASE c.op = "Pipeline.download_docling_models" -> "download"
      [] c.op = "Path.mkdir" -> "mkdir"
      [] c.op = "Path.exists" /\ c.args = <<sample_pdf_path>> -> "check_input"
      [] c.op = "PDFParser" -> "construct"
      [] c.op = "PDFParser.parse_and_export" -> "parse"
      [] c.op = "Path.exists" /\ c.args = <<output_json_path>> -> "check_output"
      [] c.op = "open" -> "load"
      [] OTHER -> ""

IsStep(c) == StepOf(c) # ""

StepCalls == SelectSeq(calls, IsStep)

StepOrder ==
    << "download", "mkdir", "check_input", "construct", "parse",
       "check_output", "load" >>

\* Whether main() went past the step: it neither raised nor took the
\* step's abort branch.
Completed(step) ==
    CASE step = "download"     -> Returned("Pipeline.download_docling_models")
      [] step = "mkdir"        -> Returned("Path.mkdir")
      [] step = "check_input"  -> InputAnswered /\ inputPdf
      [] step = "construct"    -> Returned("PDFParser")
      [] step = "parse"        -> Returned("PDFParser.parse_and_export")
      [] step = "check_output" -> OutputAnswered /\ outFile.kind # "absent"
      [] step = "load"         -> LoadedOk

(* C8: the steps of main() happen in one fixed order (download, mkdir,     *)
(* input check, constructor, parse, output check, load, summary), each at  *)
(* most once and only after every earlier step completed; the output       *)
(* directory is created before the input is checked, so a run that stops   *)
(* on a missing input leaves the output directory in existence.            *)
C8_FixedLinearOrder ==
    /\ Len(StepCalls) <= Len(StepOrder)
    /\ \A i \in 1..Len(StepCalls) :
          /\ StepOf(StepCalls[i]) = StepOrder[i]
          /\ \A j \in 1..(i - 1) : Completed(StepOrder[j])
    /\ (Printed("\n--- Snippet of Parsed JSON Output ---")
          => \A j \in 1..Len(StepOrder) : Completed(StepOrder[j]))
    /\ (InputChecked => Returned("Path.mkdir"))
    /\ (InputChecked /\ ~inputPdf => outDir = "dir")

C8_Witness ==
    /\ InputChecked /\ ~inputPdf /\ pc = "done"
    /\ outDir = "dir"
    /\ Len(StepCalls) = 3
    /\ Printed(InputNotFoundLine)

(* C9, as stated: whenever the output file was loaded, exactly one of the  *)
(* two summaries is printed: the metainfo pairs when the loaded value has  *)
(* a top-level 'metainfo' key, otherwise the snippet.                      *)
C9_Original ==
    (pc = "done" /\ LoadedOk) =>
        /\ Printed("Metainfo:") \/ Printed(SnippetHeader)
        /\ ~(Printed("Metainfo:") /\ Printed(SnippetHeader))
        /\ TopLevelKey(LoadedDoc) <=> Printed("Metainfo:")

\* The loaded values the summary code handles: an object whose metainfo,
\* if it has one, is an object, and an array or a string in which the
\* `in` test finds no "metainfo".
Summarisable(doc) ==
    \/ doc.t = "obj" /\ (HasKey(doc, "metainfo") => Lookup(doc, "metainfo").t = "obj")
    \/ doc.t \in {"arr", "str"} /\ ~HasMetainfo(doc)

(* C9, amended: when the loaded value is an object whose 'metainfo', if    *)
(* present, is an object (or an array or string holding no "metainfo"),    *)
(* exactly one summary is printed: the metainfo pairs when the key is      *)
(* present, otherwise the first 500 characters of the serialized JSON (all *)
(* of it when shorter) followed by '...'. For every other loaded value no  *)
(* summary completes: the generic error message is printed instead, and    *)
(* the snippet is never printed together with 'Metainfo:'.                 *)
C9_OneSummaryForMappings ==
    (pc = "done" /\ LoadedOk) =>
        LET doc  == LoadedDoc
            text == Dumps(doc, 0)
            keep == IF Len(text) < SnippetLimit THEN Len(text) ELSE SnippetLimit
            at   == PositionOf(SnippetHeader)
        IN  /\ ~(Printed("Metainfo:") /\ Printed(SnippetHeader))
            /\ IF ~Summarisable(doc)
               THEN /\ ~Printed(SnippetHeader)
                    /\ HasPrefix(out[Len(out)],
                         "An error occurred while reading or printing the JSON output: ")
               ELSE IF TopLevelKey(doc)
               THEN /\ Printed("Metainfo:")
                    /\ \A j \in 1..Len(MetainfoPairs(doc)) :
                          Printed(PairLine(MetainfoPairs(doc)[j]))
                    /\ out[Len(out)] = ClosingRule
               ELSE /\ at > 0 /\ Len(out) = at + 2
                    /\ Len(out[at + 1]) = keep + 3
                    /\ SubSeq(out[at + 1], 1, keep) = SubSeq(text, 1, keep)
                    /\ SubSeq(out[at + 1], keep + 1, keep + 3) = "..."
                    /\ out[Len(out)] = ClosingRule

C9_Witness ==
    /\ pc = "done" /\ LoadedOk
    /\ Len(Dumps(LoadedDoc, 0)) = SnippetLimit + 1
    /\ Printed(SnippetHeader)
    /\ Len(out[Len(out) - 1]) = SnippetLimit + 3

(* C10: the success message depends only on whether the output file exists *)
(* when parse_and_export has returned; main() does nothing to the file     *)
(* before the parse call, so a file that was there before the run and that *)
(* the parse call did not write is reported as a success and its content   *)
(* is what main() prints.                                                  *)
C10_StaleOutputReported ==
    /\ (~Called("PDFParser.parse_and_export") =>
            outFile = preexisting /\ ~OutputChecked /\ ~Called("open"))
    /\ (OutputChecked => (Printed(SuccessLine) <=> outFile.kind # "absent"))
    /\ (pc \in {"done", "raised"} /\ Returned("PDFParser.parse_and_export")
            /\ preexisting.kind # "absent"
            /\ parseEffect \in {"none", "write_other"}) =>
        LET at == PositionOf(SuccessLine)
        IN  /\ at > 0
            /\ SubSeq(out, at + 1, Len(out)) = ReadLines(preexisting)

====
